---- MODULE Spec2Model ----
(***************************************************************************)
(* Model of python-service/main.py: the CLIP image feature extraction      *)
(* service.  Three module globals (model, processor, device), the loader   *)
(* load_model_with_retry with retry and exponential backoff, the lifespan  *)
(* start-up hook, and the three request handlers health_check,             *)
(* extract_features and extract_features_batch.                            *)
(*                                                                         *)
(* Two specifications are given.  Spec lets a caller invoke the module's   *)
(* functions directly, one call at a time, with any arguments;  SpecApp    *)
(* is the served application: lifespan runs the loader with its default    *)
(* arguments and requests are handled, interleaved at their awaits, only   *)
(* after lifespan has yielded.                                             *)
(***************************************************************************)
EXTENDS Integers, Sequences, FiniteSets, TLC

VARIABLES
    model,          \* global model: a CLIPModel object or None
    processor,      \* global processor: "CLIPProcessor" or "None"
    device,         \* global device: "None", "cuda" or "cpu"
    cudaAvailable,  \* environment: what torch.cuda.is_available() answers
    loadPc,         \* position in load_model_with_retry
    max_retries,    \* its parameter
    retry_delay,    \* its parameter, doubled before each retry
    attempt,        \* its loop variable
    initialDelay,   \* the value retry_delay had when the call was made
    slept,          \* the arguments of the time.sleep calls that returned
    attempts,       \* number of loop bodies entered by the running call
    caught,         \* description of the exception caught last, <<>> if none
    raised,         \* description of the exception leaving the call, or <<>>
    lifespanPc,     \* position in lifespan ("none": no application running)
    req,            \* the request handlers' frames, one per slot
    loadedOnce      \* history: some call of the loader has returned True

vars == <<model, processor, device, cudaAvailable, loadPc, max_retries,
          retry_delay, attempt, initialDelay, slept, attempts, caught,
          raised, lifespanPc, req, loadedOnce>>

globals == <<model, processor, device>>
loadFrame == <<loadPc, max_retries, retry_delay, attempt, initialDelay,
               slept, attempts, caught, raised>>

----------------------------------------------------------------------------
(* Bounds of the model.                                                    *)

MaxRetriesArg == 3   \* max_retries is drawn from 0..MaxRetriesArg
MaxDelayArg == 2     \* retry_delay is drawn from -1..MaxDelayArg
MaxBatch == 2        \* a batch holds at most MaxBatch files

(* Program constants.                                                      *)

DefaultMaxRetries == 3
DefaultRetryDelay == 5
EmbeddingDim == 512

Slots == {1, 2}

----------------------------------------------------------------------------
(* Values.                                                                 *)

None == [loaded |-> FALSE, dev |-> "None", evalCalled |-> FALSE]

\* What CLIPModel.from_pretrained returns: an object whose weights are on
\* the CPU and on which this code has not yet called eval().
FreshModel == [loaded |-> TRUE, dev |-> "cpu", evalCalled |-> FALSE]

IsNone(m) == ~m.loaded

(* Exception descriptions are sequences of characters, so that lower() and *)
(* the substring tests of the loader are computed and not assumed.         *)

UpperCase == <<"A","B","C","D","E","F","G","H","I","J","K","L","M",
               "N","O","P","Q","R","S","T","U","V","W","X","Y","Z">>
LowerCase == <<"a","b","c","d","e","f","g","h","i","j","k","l","m",
               "n","o","p","q","r","s","t","u","v","w","x","y","z">>

LowerChar(c) ==
    IF \E i \in 1..26 : UpperCase[i] = c
    THEN LowerCase[CHOOSE i \in 1..26 : UpperCase[i] = c]
    ELSE c

\* str.lower()
Lower(s) == [i \in 1..Len(s) |-> LowerChar(s[i])]

\* sub in s
Contains(s, sub) ==
    \E i \in 1..(Len(s) - Len(sub) + 1) : SubSeq(s, i, i + Len(sub) - 1) = sub

TimeoutWord == <<"t","i","m","e","o","u","t">>
ConnectionWord == <<"c","o","n","n","e","c","t","i","o","n">>

\* "Connection reset"
MsgConnReset == <<"C","o","n","n","e","c","t","i","o","n"," ","r","e","s","e","t">>
\* "Read TimeOut"
MsgTimeout == <<"R","e","a","d"," ","T","i","m","e","O","u","t">>
\* "Read timed out": a network failure whose text holds neither word
MsgTimedOut == <<"R","e","a","d"," ","t","i","m","e","d"," ","o","u","t">>
\* "No space left"
MsgNoSpace == <<"N","o"," ","s","p","a","c","e"," ","l","e","f","t">>
\* "out of memory"
MsgOOM == <<"o","u","t"," ","o","f"," ","m","e","m","o","r","y">>
\* ValueError of time.sleep: "sleep length must be non-negative"
MsgSleep == <<"s","l","e","e","p"," ","l","e","n","g","t","h">>

\* What from_pretrained may raise.
DownloadErrors == {MsgConnReset, MsgTimeout, MsgTimedOut, MsgNoSpace}
\* What model.to("cuda") may raise; moving a CPU model to "cpu" moves nothing.
DeviceErrors == {MsgOOM}

----------------------------------------------------------------------------
(* load_model_with_retry                                                   *)

AllIdle == \A r \in Slots : req[r].pc = "idle"

\* SelectDevice that never asks for the accelerator.
SelectDeviceCpu == "cpu"

\* device = "cuda" if torch.cuda.is_available() else "cpu"
SelectDevice == IF cudaAvailable THEN "cuda" ELSE "cpu"

\* "timeout" in error_msg.lower() or "connection" in error_msg.lower()
IsNetworkError(error_msg) ==
    \/ Contains(Lower(error_msg), TimeoutWord)
    \/ Contains(Lower(error_msg), ConnectionWord)

\* ShouldRetry with the classification left out: every failure is retried
\* while attempts remain.
ShouldRetryAny(error_msg) == attempt < max_retries - 1

\* ShouldRetry with the bound off by one: the last failure is retried too.
ShouldRetryOffByOne(error_msg) ==
    IsNetworkError(error_msg) /\ attempt < max_retries

\* The test under which the except clause executes `continue`.
ShouldRetry(error_msg) ==
    IsNetworkError(error_msg) /\ attempt < max_retries - 1

\* Backoff without the doubling.
BackoffConstant(d) == d

\* retry_delay *= 2
Backoff(d) == d * 2

\* The except clause, entered with the description of the exception:
\* `continue` moves the loop to its next value, a bare `raise` leaves the
\* function with the exception that was caught.
Except(error_msg) ==
    /\ caught' = error_msg
    /\ IF ShouldRetry(error_msg)
       THEN /\ loadPc' = "for"
            /\ attempt' = attempt + 1
            /\ raised' = raised
       ELSE /\ loadPc' = "raised"
            /\ attempt' = attempt
            /\ raised' = error_msg

\* The call, up to the for statement: the device is selected and recorded.
LoadEnter(mr, d) ==
    /\ device' = SelectDevice
    /\ max_retries' = mr
    /\ retry_delay' = d
    /\ initialDelay' = d
    /\ attempt' = 0
    /\ slept' = <<>>
    /\ attempts' = 0
    /\ caught' = <<>>
    /\ raised' = <<>>
    /\ loadPc' = "for"

\* A direct call of load_model_with_retry(max_retries, retry_delay).
LoadCall(mr, d) ==
    /\ lifespanPc = "none"
    /\ loadPc = "idle"
    /\ AllIdle
    /\ LoadEnter(mr, d)
    /\ UNCHANGED <<model, processor, cudaAvailable, loadedOnce, lifespanPc, req>>

\* The for statement and the head of the try body: range(max_retries) is
\* exhausted and the function returns False, or the body is entered and,
\* on a retry, sleeps and doubles the delay.  time.sleep raises ValueError
\* on a negative argument, inside the try.
ForIter ==
    /\ loadPc = "for"
    /\ IF attempt >= max_retries
       THEN /\ loadPc' = "returnedFalse"
            /\ UNCHANGED <<attempt, retry_delay, slept, attempts, caught, raised>>
       ELSE /\ attempts' = attempts + 1
            /\ IF attempt > 0
               THEN IF retry_delay < 0
                    THEN /\ Except(MsgSleep)
                         /\ UNCHANGED <<retry_delay, slept>>
                    ELSE /\ slept' = Append(slept, retry_delay)
                         /\ retry_delay' = Backoff(retry_delay)
                         /\ loadPc' = "model"
                         /\ UNCHANGED <<attempt, caught, raised>>
               ELSE /\ loadPc' = "model"
                    /\ UNCHANGED <<attempt, retry_delay, slept, caught, raised>>
    /\ UNCHANGED <<globals, cudaAvailable, loadedOnce, max_retries, initialDelay,
                   lifespanPc, req>>

\* FromPretrainedModel that clears the global when the download fails.
FromPretrainedModelReset ==
    /\ loadPc = "model"
    /\ \/ /\ model' = FreshModel
          /\ loadPc' = "processor"
          /\ UNCHANGED <<attempt, caught, raised>>
       \/ /\ \E e \in DownloadErrors : Except(e)
          /\ model' = None
    /\ UNCHANGED <<processor, device, cudaAvailable, loadedOnce, max_retries,
                   retry_delay, initialDelay, slept, attempts, lifespanPc, req>>

\* model = CLIPModel.from_pretrained(...)
FromPretrainedModel ==
    /\ loadPc = "model"
    /\ \/ /\ model' = FreshModel
          /\ loadPc' = "processor"
          /\ UNCHANGED <<attempt, caught, raised>>
       \/ /\ \E e \in DownloadErrors : Except(e)
          /\ UNCHANGED model
    /\ UNCHANGED <<processor, device, cudaAvailable, loadedOnce, max_retries,
                   retry_delay, initialDelay, slept, attempts, lifespanPc, req>>

\* processor = CLIPProcessor.from_pretrained(...)
FromPretrainedProcessor ==
    /\ loadPc = "processor"
    /\ \/ /\ processor' = "CLIPProcessor"
          /\ loadPc' = "to"
          /\ UNCHANGED <<attempt, caught, raised>>
       \/ /\ \E e \in DownloadErrors : Except(e)
          /\ UNCHANGED processor
    /\ UNCHANGED <<model, device, cudaAvailable, loadedOnce, max_retries,
                   retry_delay, initialDelay, slept, attempts, lifespanPc, req>>

\* model = model.to(device); model.eval(); return True
MoveAndReturn ==
    /\ loadPc = "to"
    /\ \/ /\ model' = [model EXCEPT !.dev = device, !.evalCalled = TRUE]
          /\ loadPc' = "returnedTrue"
          /\ loadedOnce' = TRUE
          /\ UNCHANGED <<attempt, caught, raised>>
       \/ /\ device = "cuda"
          /\ \E e \in DeviceErrors : Except(e)
          /\ UNCHANGED <<model, loadedOnce>>
    /\ UNCHANGED <<processor, device, cudaAvailable, max_retries, retry_delay,
                   initialDelay, slept, attempts, lifespanPc, req>>

LoadEnded == loadPc \in {"returnedTrue", "returnedFalse", "raised"}

\* The frame of a call that has ended is dropped.
LoadLeave ==
    /\ loadPc' = "idle"
    /\ max_retries' = 0
    /\ retry_delay' = 0
    /\ initialDelay' = 0
    /\ attempt' = 0
    /\ slept' = <<>>
    /\ attempts' = 0
    /\ caught' = <<>>
    /\ raised' = <<>>

\* The direct caller takes the result of the call.
LoadResult ==
    /\ lifespanPc = "none"
    /\ LoadEnded
    /\ LoadLeave
    /\ UNCHANGED <<globals, cudaAvailable, loadedOnce, lifespanPc, req>>

----------------------------------------------------------------------------
(* Uploaded files and the extraction pipeline                              *)

\* The uploads a request may carry.  A file is what the pipeline can tell
\* apart: whether read() succeeds, whether PIL identifies the bytes, the
\* mode of the image ("RGBA" and "LA", grey with alpha, have an alpha
\* channel), whether the forward pass succeeds on it, and an identity of
\* its pixels.
Catalog ==
    { [filename |-> "a.png", readable |-> TRUE, format |-> "PNG",
       mode |-> "RGB", fits |-> TRUE, pixels |-> "A"],
      [filename |-> "b.txt", readable |-> TRUE, format |-> "unknown",
       mode |-> "none", fits |-> TRUE, pixels |-> "B"],
      [filename |-> "c.png", readable |-> TRUE, format |-> "PNG",
       mode |-> "RGBA", fits |-> TRUE, pixels |-> "C"],
      [filename |-> "d.png", readable |-> TRUE, format |-> "PNG",
       mode |-> "RGB", fits |-> FALSE, pixels |-> "D"],
      [filename |-> "e.png", readable |-> FALSE, format |-> "PNG",
       mode |-> "RGB", fits |-> TRUE, pixels |-> "E"],
      [filename |-> "f.png", readable |-> TRUE, format |-> "PNG",
       mode |-> "LA", fits |-> TRUE, pixels |-> "F"] }

RECURSIVE SeqsUpTo(_, _)
SeqsUpTo(S, n) ==
    IF n = 0 THEN {<<>>}
    ELSE LET shorter == SeqsUpTo(S, n - 1)
         IN  shorter \cup {Append(q, x) : q \in {t \in shorter : Len(t) = n - 1}, x \in S}

FileLists == SeqsUpTo(Catalog, MaxBatch)

\* handed: the mode of the image the processor was called with, "none" if
\* it was not called.
NoWork == [reads |-> 0, decodes |-> 0, infers |-> 0, handed |-> "none"]

\* ConvertMode without the conversion.
ConvertModeNever(mode) == mode

Failure(e, w) == [ok |-> FALSE, error |-> e, work |-> w]

\* if image.mode == 'RGBA': image = image.convert('RGB')
ConvertMode(mode) == IF mode = "RGBA" THEN "RGB" ELSE mode

\* CLIPProcessor converts what it is given to RGB itself (do_convert_rgb).
ProcessorMode(mode) == "RGB"

\* image_features / image_features.norm(dim=-1, keepdim=True)
Normalize(features) == [features EXCEPT !.norm = features.norm \div features.norm]

\* The body of the try of extract_features, the same statements as the body
\* of the try of extract_features_batch: read, Image.open, convert,
\* processor, inputs moved to device, get_image_features, normalise.  The
\* result is the embedding, or the description of the exception that ended
\* the body, and the number of reads, decodes and forward passes made.  The
\* forward pass raises when the inputs and the weights are on two devices.
ExtractEmbedding(file) ==
    IF ~file.readable
    THEN Failure("read of closed file", [NoWork EXCEPT !.reads = 1])
    ELSE IF file.format = "unknown"
    THEN Failure("cannot identify image file",
                 [NoWork EXCEPT !.reads = 1, !.decodes = 1])
    ELSE LET image == [mode |-> ConvertMode(file.mode), pixels |-> file.pixels]
         IN  IF processor = "None"
             THEN Failure("'NoneType' object is not callable",
                          [NoWork EXCEPT !.reads = 1, !.decodes = 1])
             ELSE IF IsNone(model)
             THEN Failure("'NoneType' object has no attribute 'get_image_features'",
                          [NoWork EXCEPT !.reads = 1, !.decodes = 1,
                                         !.handed = image.mode])
             ELSE IF model.dev # device
             THEN Failure("tensors on different devices",
                          [reads |-> 1, decodes |-> 1, infers |-> 1,
                           handed |-> image.mode])
             ELSE IF ~file.fits
             THEN Failure("out of memory",
                          [reads |-> 1, decodes |-> 1, infers |-> 1,
                           handed |-> image.mode])
             ELSE [ok |-> TRUE,
                   embedding |-> Normalize([of |-> image.pixels,
                                            mode |-> ProcessorMode(image.mode),
                                            len |-> EmbeddingDim,
                                            norm |-> 3]),
                   work |-> [reads |-> 1, decodes |-> 1, infers |-> 1,
                             handed |-> image.mode]]

----------------------------------------------------------------------------
(* The request handlers                                                    *)

Idle == [pc |-> "idle"]

\* Handlers run when no loader call is on the stack: a direct caller makes
\* one call at a time, the application serves after lifespan has yielded.
CanStart(r) ==
    /\ req[r].pc = "idle"
    /\ loadPc = "idle"
    /\ \/ lifespanPc = "serving"
       \/ lifespanPc = "none" /\ AllIdle

\* HealthNotLoaded looking at the model alone.
HealthModelOnly == IsNone(model)

\* if model is None or processor is None  (health_check)
HealthNotLoaded == IsNone(model) \/ processor = "None"

\* SingleNotReady with `and` for `or`.
SingleNotReadyBoth == IsNone(model) /\ processor = "None"

\* if model is None or processor is None  (extract_features)
SingleNotReady == IsNone(model) \/ processor = "None"

\* if model is None or processor is None  (extract_features_batch)
BatchNotReady == IsNone(model) \/ processor = "None"

HealthBody ==
    IF HealthNotLoaded
    THEN [status |-> "unhealthy", model_loaded |-> FALSE, device |-> device,
          message |-> "Model not loaded"]
    ELSE [status |-> "healthy", model_loaded |-> TRUE, device |-> device,
          model_name |-> "CLIP ViT-B/32", embedding_dimension |-> EmbeddingDim]

\* GET /health: no await, the handler runs to its return.
health_check(r) ==
    /\ CanStart(r)
    /\ req' = [req EXCEPT ![r] = [pc |-> "done", kind |-> "health",
                                  status |-> 200, body |-> HealthBody]]
    /\ UNCHANGED <<globals, cudaAvailable, loadedOnce, loadFrame, lifespanPc>>

\* raise HTTPException(status_code=503, detail="Model not loaded")
NotLoaded(kind, files) ==
    [pc |-> "done", kind |-> kind, files |-> files, status |-> 503,
     body |-> [detail |-> "Model not loaded"], work |-> <<>>]

\* SingleResponse with the bare cause as the detail.
SingleResponseBare(file) ==
    LET x == ExtractEmbedding(file)
    IN  IF x.ok
        THEN [pc |-> "done", kind |-> "single", files |-> <<file>>,
              status |-> 200,
              body |-> [success |-> TRUE, embedding |-> x.embedding,
                        dimension |-> x.embedding.len],
              work |-> <<x.work>>]
        ELSE [pc |-> "done", kind |-> "single", files |-> <<file>>,
              status |-> 500,
              body |-> [detail |-> x.error],
              work |-> <<x.work>>]

\* What extract_features answers once the read has completed.
SingleResponse(file) ==
    LET x == ExtractEmbedding(file)
    IN  IF x.ok
        THEN [pc |-> "done", kind |-> "single", files |-> <<file>>,
              status |-> 200,
              body |-> [success |-> TRUE, embedding |-> x.embedding,
                        dimension |-> x.embedding.len],
              work |-> <<x.work>>]
        ELSE [pc |-> "done", kind |-> "single", files |-> <<file>>,
              status |-> 500,
              body |-> [detail |-> "Feature extraction failed: " \o x.error],
              work |-> <<x.work>>]

\* POST /extract-features, up to `await file.read()`.
extract_features_call(r, file) ==
    /\ CanStart(r)
    /\ req' = [req EXCEPT ![r] =
                  IF SingleNotReady
                  THEN NotLoaded("single", <<file>>)
                  ELSE [pc |-> "reading", kind |-> "single", files |-> <<file>>,
                        i |-> 1, results |-> <<>>, work |-> <<>>]]
    /\ UNCHANGED <<globals, cudaAvailable, loadedOnce, loadFrame, lifespanPc>>

\* extract_features_resume that drops the global model when it fails.
extract_features_resume_drops(r) ==
    /\ req[r].pc = "reading"
    /\ req[r].kind = "single"
    /\ req' = [req EXCEPT ![r] = SingleResponse(req[r].files[1])]
    /\ model' = IF SingleResponse(req[r].files[1]).status = 500
                THEN None ELSE model
    /\ UNCHANGED <<processor, device, cudaAvailable, loadedOnce, loadFrame,
                   lifespanPc>>

\* extract_features from the completion of the read to its return or raise.
extract_features_resume(r) ==
    /\ req[r].pc = "reading"
    /\ req[r].kind = "single"
    /\ req' = [req EXCEPT ![r] = SingleResponse(req[r].files[1])]
    /\ UNCHANGED <<globals, cudaAvailable, loadedOnce, loadFrame, lifespanPc>>

\* The entry one pass of the batch loop appends to results.
BatchEntry(file) ==
    LET x == ExtractEmbedding(file)
    IN  IF x.ok
        THEN [filename |-> file.filename, success |-> TRUE,
              embedding |-> x.embedding, dimension |-> x.embedding.len]
        ELSE [filename |-> file.filename, success |-> FALSE, error |-> x.error]

\* BatchResponse with the outer success computed from the entries.
BatchResponseAllOk(files, results, work) ==
    [pc |-> "done", kind |-> "batch", files |-> files, status |-> 200,
     body |-> [success |-> \A k \in 1..Len(results) : results[k].success,
               results |-> results],
     work |-> work]

\* return {"success": True, "results": results}
BatchResponse(files, results, work) ==
    [pc |-> "done", kind |-> "batch", files |-> files, status |-> 200,
     body |-> [success |-> TRUE, results |-> results], work |-> work]

\* BatchStep with an except clause that logs and appends nothing.
BatchStepSkipFailed(frame) ==
    LET file == frame.files[frame.i]
        entry == BatchEntry(file)
        results == IF entry.success THEN Append(frame.results, entry)
                   ELSE frame.results
        work == Append(frame.work, ExtractEmbedding(file).work)
    IN  IF frame.i < Len(frame.files)
        THEN [frame EXCEPT !.i = frame.i + 1, !.results = results, !.work = work]
        ELSE BatchResponse(frame.files, results, work)

\* BatchStep with an except clause that ends the loop.
BatchStepAbort(frame) ==
    LET file == frame.files[frame.i]
        entry == BatchEntry(file)
        results == Append(frame.results, entry)
        work == Append(frame.work, ExtractEmbedding(file).work)
    IN  IF frame.i < Len(frame.files) /\ entry.success
        THEN [frame EXCEPT !.i = frame.i + 1, !.results = results, !.work = work]
        ELSE BatchResponse(frame.files, results, work)

\* BatchStep that runs the pipeline a second time on a file that failed.
BatchStepRetry(frame) ==
    LET file == frame.files[frame.i]
        x == ExtractEmbedding(file)
        results == Append(frame.results, BatchEntry(file))
        w == IF x.ok THEN x.work
             ELSE [x.work EXCEPT !.reads = 2 * x.work.reads,
                                 !.decodes = 2 * x.work.decodes,
                                 !.infers = 2 * x.work.infers]
        work == Append(frame.work, w)
    IN  IF frame.i < Len(frame.files)
        THEN [frame EXCEPT !.i = frame.i + 1, !.results = results, !.work = work]
        ELSE BatchResponse(frame.files, results, work)

\* BatchStep over a results list shared by the batches in flight: the pass
\* appends to the longest list a batch in flight holds.
BatchStepShared(frame) ==
    LET file == frame.files[frame.i]
        others == {q \in Slots : /\ req[q].pc = "reading"
                                 /\ req[q].kind = "batch"
                                 /\ Len(req[q].results) > Len(frame.results)}
        base == IF others = {} THEN frame.results
                ELSE req[CHOOSE q \in others : TRUE].results
        results == Append(base, BatchEntry(file))
        work == Append(frame.work, ExtractEmbedding(file).work)
    IN  IF frame.i < Len(frame.files)
        THEN [frame EXCEPT !.i = frame.i + 1, !.results = results, !.work = work]
        ELSE BatchResponse(frame.files, results, work)

\* The frame after the pass over files[i], whose read has completed: the
\* entry is appended and the loop awaits the next read, or returns.
BatchStep(frame) ==
    LET file == frame.files[frame.i]
        results == Append(frame.results, BatchEntry(file))
        work == Append(frame.work, ExtractEmbedding(file).work)
    IN  IF frame.i < Len(frame.files)
        THEN [frame EXCEPT !.i = frame.i + 1, !.results = results, !.work = work]
        ELSE BatchResponse(frame.files, results, work)

\* POST /extract-features-batch, up to the first `await file.read()`.
extract_features_batch_call(r, files) ==
    /\ CanStart(r)
    /\ req' = [req EXCEPT ![r] =
                  IF BatchNotReady
                  THEN NotLoaded("batch", files)
                  ELSE IF files = <<>>
                  THEN BatchResponse(files, <<>>, <<>>)
                  ELSE [pc |-> "reading", kind |-> "batch", files |-> files,
                        i |-> 1, results |-> <<>>, work |-> <<>>]]
    /\ UNCHANGED <<globals, cudaAvailable, loadedOnce, loadFrame, lifespanPc>>

\* One pass of the loop of extract_features_batch.
extract_features_batch_resume(r) ==
    /\ req[r].pc = "reading"
    /\ req[r].kind = "batch"
    /\ req' = [req EXCEPT ![r] = BatchStep(req[r])]
    /\ UNCHANGED <<globals, cudaAvailable, loadedOnce, loadFrame, lifespanPc>>

\* The response is sent and the handler's frame is dropped.
Respond(r) ==
    /\ req[r].pc = "done"
    /\ req' = [req EXCEPT ![r] = Idle]
    /\ UNCHANGED <<globals, cudaAvailable, loadedOnce, loadFrame, lifespanPc>>

----------------------------------------------------------------------------
(* lifespan                                                                *)

\* try: load_model_with_retry()
LifespanStartup ==
    /\ lifespanPc = "startup"
    /\ loadPc = "idle"
    /\ LoadEnter(DefaultMaxRetries, DefaultRetryDelay)
    /\ lifespanPc' = "loading"
    /\ UNCHANGED <<model, processor, cudaAvailable, loadedOnce, req>>

\* LifespanAfterLoad with an except clause that logs and does not raise.
LifespanAfterLoadSwallow(ended) == "serving"

\* Where lifespan goes when the loader's call has ended: a return value,
\* True or False, is discarded and lifespan yields; an exception is logged
\* and raised again, and the application does not start.
LifespanAfterLoad(ended) == IF ended = "raised" THEN "aborted" ELSE "serving"

LifespanLoaded ==
    /\ lifespanPc = "loading"
    /\ LoadEnded
    /\ lifespanPc' = LifespanAfterLoad(loadPc)
    /\ LoadLeave
    /\ UNCHANGED <<globals, cudaAvailable, loadedOnce, req>>

----------------------------------------------------------------------------
(* Specifications                                                          *)

InitCommon ==
    /\ model = None
    /\ processor = "None"
    /\ device = "None"
    /\ cudaAvailable \in BOOLEAN
    /\ loadPc = "idle"
    /\ max_retries = 0
    /\ retry_delay = 0
    /\ initialDelay = 0
    /\ attempt = 0
    /\ slept = <<>>
    /\ attempts = 0
    /\ caught = <<>>
    /\ raised = <<>>
    /\ req = [r \in Slots |-> Idle]
    /\ loadedOnce = FALSE

\* The module has been imported; its functions are called directly.
Init == InitCommon /\ lifespanPc = "none"

\* The module has been imported and the server is starting the application.
InitApp == InitCommon /\ lifespanPc = "startup"

LoadSteps ==
    \/ ForIter
    \/ FromPretrainedModel
    \/ FromPretrainedProcessor
    \/ MoveAndReturn

Requests ==
    \E r \in Slots :
        \/ health_check(r)
        \/ \E file \in Catalog : extract_features_call(r, file)
        \/ extract_features_resume(r)
        \/ \E files \in FileLists : extract_features_batch_call(r, files)
        \/ extract_features_batch_resume(r)
        \/ Respond(r)

Next ==
    \/ \E mr \in 0..MaxRetriesArg, d \in -1..MaxDelayArg : LoadCall(mr, d)
    \/ LoadSteps
    \/ LoadResult
    \/ Requests

NextApp ==
    \/ LifespanStartup
    \/ LoadSteps
    \/ LifespanLoaded
    \/ Requests

Spec == Init /\ [][Next]_vars

SpecApp == InitApp /\ [][NextApp]_vars

----------------------------------------------------------------------------
(* Properties                                                              *)

\* The gate of spec section 4.2: NOT_READY when model or processor is None.
NOT_READY == IsNone(model) \/ processor = "None"
READY == ~NOT_READY

Done(r, kind) == req[r].pc = "done" /\ req[r].kind = kind

\* Read, decode and the forward pass all succeed on the file: the forward
\* pass needs the weights on the device the inputs are moved to.
Sound(f) == f.readable /\ f.format # "unknown" /\ model.dev = device /\ f.fits

\* The description of the exception an unsound file ends the pipeline with.
Cause(f) ==
    IF ~f.readable THEN "read of closed file"
    ELSE IF f.format = "unknown" THEN "cannot identify image file"
    ELSE IF model.dev # device THEN "tensors on different devices"
    ELSE "out of memory"

\* C1: while the gate is NOT_READY, a single and a batch extraction both end
\* with 503 and the detail "Model not loaded", the batch response carries no
\* results array, no handler is ever past its gate waiting for a read, and
\* no read, decode or forward pass has been made for any item.
C1_ReadinessGating ==
    NOT_READY =>
        \A r \in Slots :
            /\ req[r].pc # "reading"
            /\ (Done(r, "single") \/ Done(r, "batch")) =>
                   /\ req[r].status = 503
                   /\ req[r].body = [detail |-> "Model not loaded"]
                   /\ "results" \notin DOMAIN req[r].body
                   /\ req[r].work = <<>>

\* A batch of two files rejected while the model is loaded and the
\* processor is not.
C1_Witness ==
    /\ ~IsNone(model)
    /\ processor = "None"
    /\ \E r \in Slots :
           /\ Done(r, "batch")
           /\ Len(req[r].files) = 2
           /\ req[r].status = 503

\* C2: every call of load ends in one of two ways: it returns True with the
\* gate READY, or it raises.
C2_TwoOutcomes ==
    LoadEnded => \/ loadPc = "returnedTrue" /\ READY
                 \/ loadPc = "raised"

\* C3: in the application a handler runs only after lifespan has yielded,
\* lifespan yields only after a load that returned with the model and the
\* processor set, the model moved to the device and in inference mode, and
\* no request is answered 503 or "unhealthy".
C3_StartupPrecedesServing ==
    /\ (\E r \in Slots : req[r].pc # "idle") => lifespanPc = "serving"
    /\ lifespanPc = "serving" =>
           /\ READY
           /\ model.dev = device
           /\ model.evalCalled
    /\ lifespanPc = "aborted" => \A r \in Slots : req[r].pc = "idle"
    /\ \A r \in Slots :
           /\ (Done(r, "single") \/ Done(r, "batch")) => req[r].status # 503
           /\ Done(r, "health") => req[r].body.status = "healthy"

\* The application serving, one extraction answered and a batch in flight.
C3_Witness ==
    /\ lifespanPc = "serving"
    /\ \E r \in Slots : Done(r, "single") /\ req[r].status = 200
    /\ \E r \in Slots : req[r].pc = "reading" /\ req[r].kind = "batch"

\* C4: with the gate READY the results of a batch have the length of the
\* input list and entry i carries the filename of input i.
C4_BatchLengthOrder ==
    \A r \in Slots :
        (READY /\ Done(r, "batch")) =>
            /\ req[r].status = 200
            /\ "results" \in DOMAIN req[r].body
            /\ Len(req[r].body.results) = Len(req[r].files)
            /\ \A k \in 1..Len(req[r].files) :
                   req[r].body.results[k].filename = req[r].files[k].filename

\* A batch whose first file fails and whose second, another file, succeeds.
C4_Witness ==
    \E r \in Slots :
        /\ READY
        /\ Done(r, "batch")
        /\ Len(req[r].files) = 2
        /\ ~Sound(req[r].files[1])
        /\ Sound(req[r].files[2])
        /\ req[r].body.results[2].filename = "c.png"

\* C5: with the gate READY every input of a batch has its entry, a success
\* entry with the embedding of that very file and its dimension exactly
\* when read, decode and forward pass succeed on the file, an error entry
\* with the cause and no embedding otherwise, whatever the other files are.
C5_BatchIsolation ==
    \A r \in Slots :
        (READY /\ Done(r, "batch")) =>
            /\ DOMAIN req[r].body.results = DOMAIN req[r].files
            /\ \A k \in DOMAIN req[r].body.results :
                   LET f == req[r].files[k]
                       e == req[r].body.results[k]
                   IN  IF Sound(f)
                       THEN /\ e.success
                            /\ DOMAIN e = {"filename", "success", "embedding", "dimension"}
                            /\ e.embedding.of = f.pixels
                            /\ e.dimension = e.embedding.len
                       ELSE /\ ~e.success
                            /\ DOMAIN e = {"filename", "success", "error"}
                            /\ e.error = Cause(f)

\* A batch whose first file fails in the forward pass and whose second
\* succeeds.
C5_Witness ==
    \E r \in Slots :
        /\ READY
        /\ Done(r, "batch")
        /\ Len(req[r].files) = 2
        /\ req[r].files[1].filename = "d.png"
        /\ ~req[r].body.results[1].success
        /\ req[r].body.results[2].success

\* C6: with the gate READY a batch is answered 200 with outer success true.
C6_BatchEnvelope ==
    \A r \in Slots :
        (READY /\ Done(r, "batch")) =>
            /\ req[r].status = 200
            /\ req[r].body.success = TRUE

\* A batch answered although each of its files failed.
C6_Witness ==
    \E r \in Slots :
        /\ READY
        /\ Done(r, "batch")
        /\ Len(req[r].files) = MaxBatch
        /\ \A k \in 1..Len(req[r].body.results) : ~req[r].body.results[k].success

\* C7: with the gate READY a single extraction is answered 200 with success,
\* embedding and dimension when the file is sound, and otherwise 500 with
\* the detail "Feature extraction failed: " followed by the cause and
\* nothing else.
C7_SingleOutcome ==
    \A r \in Slots :
        (READY /\ Done(r, "single")) =>
            LET f == req[r].files[1]
            IN  IF Sound(f)
                THEN /\ req[r].status = 200
                     /\ DOMAIN req[r].body = {"success", "embedding", "dimension"}
                     /\ req[r].body.success = TRUE
                     /\ req[r].body.embedding.of = f.pixels
                     /\ req[r].body.dimension = req[r].body.embedding.len
                ELSE /\ req[r].status = 500
                     /\ req[r].body =
                            [detail |-> "Feature extraction failed: " \o Cause(f)]

\* A single extraction that failed at decode.
C7_Witness ==
    \E r \in Slots :
        /\ READY
        /\ Done(r, "single")
        /\ req[r].files[1].format = "unknown"
        /\ req[r].status = 500

\* C8: a health query is answered 200; its body says "unhealthy" and
\* model_loaded false when the gate is NOT_READY, "healthy", model_loaded
\* true and embedding_dimension 512 when it is READY, and in both cases the
\* recorded device.
C8_HealthContract ==
    \A r \in Slots :
        Done(r, "health") =>
            /\ req[r].status = 200
            /\ req[r].body.device = device
            /\ IF NOT_READY
               THEN /\ req[r].body.status = "unhealthy"
                    /\ req[r].body.model_loaded = FALSE
               ELSE /\ req[r].body.status = "healthy"
                    /\ req[r].body.model_loaded = TRUE
                    /\ req[r].body.embedding_dimension = 512

\* A health query answered "unhealthy" with a device recorded and the model
\* loaded: the processor is missing.
C8_Witness ==
    \E r \in Slots :
        /\ Done(r, "health")
        /\ ~IsNone(model)
        /\ NOT_READY
        /\ device # "None"
        /\ req[r].body.status = "unhealthy"

RECURSIVE Pow2(_)
Pow2(n) == IF n = 0 THEN 1 ELSE 2 * Pow2(n - 1)

RECURSIVE Sum(_)
Sum(q) == IF q = <<>> THEN 0 ELSE Head(q) + Sum(Tail(q))

\* C9: inside attempt number attempt (from 0) the loader has slept attempt
\* times, none before the first attempt, the k-th sleep lasting
\* initialDelay * 2^(k-1); when load returns True from its third attempt
\* with max_retries = 3, the sleeps add up to initialDelay + 2*initialDelay.
C9_BackoffSchedule ==
    /\ \A k \in 1..Len(slept) : slept[k] = initialDelay * Pow2(k - 1)
    /\ loadPc \in {"model", "processor", "to", "returnedTrue"} =>
           Len(slept) = attempt
    /\ (loadPc = "returnedTrue" /\ max_retries = 3 /\ attempt = 2) =>
           Sum(slept) = initialDelay + 2 * initialDelay

\* load has returned True from the third of three attempts, after sleeping
\* 2 and then 4.
C9_Witness ==
    /\ loadPc = "returnedTrue"
    /\ max_retries = 3
    /\ attempt = 2
    /\ slept = <<2, 4>>

\* The descriptions that hold "timeout" or "connection" in some casing.
NetworkTexts == {MsgConnReset, MsgTimeout}

\* C10: once an attempt has failed with a description that is not
\* network-classified, load has raised that very error, in the attempt that
\* failed and without a sleep after it.
C10_FatalNonNetwork ==
    (caught # <<>> /\ caught \notin NetworkTexts) =>
        /\ loadPc = "raised"
        /\ raised = caught
        /\ attempts = attempt + 1
        /\ Len(slept) <= attempt

\* "Read timed out" raised by the second of three attempts.
C10_Witness ==
    /\ loadPc = "raised"
    /\ raised = MsgTimedOut
    /\ max_retries = 3
    /\ attempt = 1
    /\ Len(slept) = 1

----------------------------------------------------------------------------
(* Properties of the pipeline, the loader and the gate                     *)

\* The modes of the catalog that carry an alpha channel.
AlphaModes == {"RGBA", "LA"}

\* The frames that hold files and the work made on them.
Extracting(r) ==
    /\ req[r].pc \in {"reading", "done"}
    /\ req[r].kind \in {"single", "batch"}

\* Item k of a finished request was answered with an embedding.
ItemOk(r, k) ==
    IF req[r].kind = "single" THEN req[r].status = 200
    ELSE req[r].body.results[k].success

\* C11 as claimed: whenever the processor is called on an image with an
\* alpha channel, it is handed an RGB image.
C11_AlphaDropped ==
    \A r \in Slots :
        Extracting(r) =>
            \A k \in 1..Len(req[r].work) :
                (/\ req[r].files[k].mode \in AlphaModes
                 /\ req[r].work[k].handed # "none") =>
                    req[r].work[k].handed = "RGB"

\* C11 amended: whenever the processor is called on an image of mode RGBA,
\* it is handed an RGB image; an image with alpha in another mode is handed
\* over as it is; and with the gate READY and the weights on the device a
\* readable, identified image with alpha that fits is answered with an
\* embedding, in the single and in the batch pipeline.
C11_RGBADropped ==
    \A r \in Slots :
        Extracting(r) =>
            \A k \in 1..Len(req[r].work) :
                LET f == req[r].files[k]
                    w == req[r].work[k]
                IN  /\ (f.mode = "RGBA" /\ w.handed # "none") => w.handed = "RGB"
                    /\ (f.mode \in AlphaModes \ {"RGBA"} /\ w.handed # "none") =>
                           w.handed = f.mode
                    /\ (/\ req[r].pc = "done"
                        /\ f.mode \in AlphaModes
                        /\ f.readable /\ f.format # "unknown" /\ f.fits
                        /\ model.dev = device) => ItemOk(r, k)

\* A batch of an RGBA file and an LA file, both answered with an embedding.
C11_Witness ==
    \E r \in Slots :
        /\ Done(r, "batch")
        /\ req[r].status = 200
        /\ Len(req[r].files) = 2
        /\ req[r].files[1].mode = "RGBA"
        /\ req[r].files[2].mode = "LA"
        /\ req[r].work[1].handed = "RGB"
        /\ req[r].work[2].handed = "LA"
        /\ req[r].body.results[1].success
        /\ req[r].body.results[2].success

\* C13: the gate is READY only if a call of load has returned True.
C13_ReadyOnlyAfterSuccess == READY => loadedOnce

\* C14: load enters at most max_retries loop bodies; a call that ended
\* after a network-classified failure and did not return True has raised
\* that last error, has made exactly max_retries attempts and has slept
\* max_retries - 1 times, once before each retry and not after the last
\* failure.
C14_RetryBound ==
    /\ loadPc # "idle" => attempts <= max_retries
    /\ (LoadEnded /\ loadPc # "returnedTrue" /\ caught \in NetworkTexts) =>
           /\ loadPc = "raised"
           /\ raised = caught
           /\ attempts = max_retries
           /\ attempt = max_retries - 1
           /\ Len(slept) = max_retries - 1

\* Three attempts, each failed with a network-classified error: the third
\* error is raised after two sleeps.
C14_Witness ==
    /\ loadPc = "raised"
    /\ raised \in NetworkTexts
    /\ max_retries = 3
    /\ attempts = 3
    /\ slept = <<1, 2>>

\* C15: when load returns True the model and the processor are set, the
\* recorded device is the accelerator if there is one and the CPU if not,
\* and the model is on that device and in inference mode.
C15_LoadPostcondition ==
    loadPc = "returnedTrue" =>
        /\ ~IsNone(model)
        /\ processor # "None"
        /\ device = (IF cudaAvailable THEN "cuda" ELSE "cpu")
        /\ model.dev = device
        /\ model.evalCalled

\* load has returned True from its second attempt, with an accelerator.
C15_Witness ==
    /\ loadPc = "returnedTrue"
    /\ cudaAvailable
    /\ attempt = 1
    /\ model.dev = "cuda"

\* C16: no step takes the gate from READY to NOT_READY.
C16_OneWayGate == [][READY => READY']_vars

\* The gate is READY after a load that succeeded and a later load that
\* raised.
C16_Witness ==
    /\ READY
    /\ loadedOnce
    /\ loadPc = "raised"
    /\ raised = MsgNoSpace

\* C17: a step of a request handler changes none of model, processor and
\* device.
C17_HandlersKeepEngineState ==
    [][(req' # req) => (model' = model /\ processor' = processor /\ device' = device)]_vars

\* A single extraction answered 500 at decode, and the engine as the
\* loader left it.
C17_Witness ==
    \E r \in Slots :
        /\ Done(r, "single")
        /\ req[r].status = 500
        /\ req[r].files[1].format = "unknown"
        /\ READY
        /\ model.evalCalled

\* C18: for every file of a request the pipeline has run at most once: at
\* most one read, one decode and one forward pass, and no more passes than
\* files.
C18_NoInferenceRetry ==
    \A r \in Slots :
        Extracting(r) =>
            /\ Len(req[r].work) <= Len(req[r].files)
            /\ \A k \in 1..Len(req[r].work) :
                   /\ req[r].work[k].reads <= 1
                   /\ req[r].work[k].decodes <= 1
                   /\ req[r].work[k].infers <= 1

\* A batch whose first file failed in its forward pass and whose second
\* failed at decode.
C18_Witness ==
    \E r \in Slots :
        /\ Done(r, "batch")
        /\ req[r].status = 200
        /\ model.dev = device
        /\ Len(req[r].files) = 2
        /\ req[r].files[1].filename = "d.png"
        /\ req[r].work[1].infers = 1
        /\ ~req[r].body.results[1].success
        /\ req[r].files[2].format = "unknown"
        /\ req[r].work[2].decodes = 1

\* What a handler answers when it runs with no other request in flight.
Alone(kind, files) ==
    IF kind = "single" THEN SingleResponse(files[1])
    ELSE BatchResponse(files,
                       [k \in 1..Len(files) |-> BatchEntry(files[k])],
                       [k \in 1..Len(files) |-> ExtractEmbedding(files[k]).work])

\* The state part of C19: a finished extraction holds the response it
\* would have given alone; a batch in flight awaits the read of the file
\* after its last entry and holds the entries of the files before it.
C19_State ==
    \A r \in Slots :
        /\ (Done(r, "single") \/ Done(r, "batch")) =>
               req[r] = Alone(req[r].kind, req[r].files)
        /\ (req[r].pc = "reading" /\ req[r].kind = "batch") =>
               /\ req[r].i = Len(req[r].results) + 1
               /\ req[r].i <= Len(req[r].files)
               /\ Len(req[r].work) = Len(req[r].results)
               /\ \A k \in 1..Len(req[r].results) :
                      req[r].results[k] = BatchEntry(req[r].files[k])

\* The step part of C19: a step runs one handler, and makes at most one
\* pass of the pipeline.
C19_Step ==
    /\ \A r, q \in Slots : r # q => (req'[r] = req[r] \/ req'[q] = req[q])
    /\ \A r \in Slots :
           (req'[r] # req[r] /\ req[r].pc = "reading") =>
               Len(req'[r].work) = Len(req[r].work) + 1

\* C19: requests interleaved at their reads answer as they would alone, a
\* batch makes its passes one after the other, and no two passes of the
\* pipeline run in one step.
C19_InterleavingIndependence == [](C19_State) /\ [][C19_Step]_vars

\* Two batches in flight together: one has made its first pass and awaits
\* its second read, the other has finished.
C19_Witness ==
    /\ lifespanPc = "serving"
    /\ req[1].pc = "reading" /\ req[1].kind = "batch"
    /\ Len(req[1].results) = 1
    /\ Done(2, "batch")
    /\ Len(req[2].files) = 2
    /\ req[2].files # req[1].files

====
